---------------------------- MODULE Spec2Model ----------------------------
(***************************************************************************)
(* Model of stl-to-gcode.py: plane/triangle intersection, layer slicing,   *)
(* toolpath ordering and G-code emission.                                  *)
(*                                                                         *)
(* Numbers of the geometric pipeline are exact rationals [n, d] (d > 0,    *)
(* lowest terms; d = 0 is the non-finite result of a division by zero).    *)
(* On the input grid used here (integer coordinates, layer heights that    *)
(* are multiples of 1/8) every intermediate value is a dyadic rational, so *)
(* the program's floating-point arithmetic is exact and agrees with it.    *)
(* The two accumulations z += layer_height are modelled a second time in   *)
(* IEEE binary64, where their rounding shows: the height sweep of          *)
(* slice_model (SweepSpec) and generate_gcode run on its own (EmitSpec).   *)
(***************************************************************************)
EXTENDS Integers, Sequences, FiniteSets

VARIABLES
    mesh,        \* mesh_data.vectors: sequence of triangles (3 vertices of 3 numbers)
    h,           \* layer_height
    pc,          \* position of the driver / of the running function
    z,           \* slice_model: current plane height
    layers,      \* slice_model: layers appended so far (each a sequence of segments)
    heights,     \* history: plane height at which each layer was sliced
    results,     \* history: per layer, calculate_plane_intersection's result per triangle
    divs,        \* history: every divisor z2 - z1 the interpolation evaluated
    toolpaths,   \* generate_toolpaths' return value
    sink,        \* generate_gcode: the output file, "none" | "open" | "closed"
    out,         \* lines written to the output file
    gz,          \* generate_gcode: accumulated z
    li,          \* generate_gcode: index of the toolpath being emitted
    pj,          \* generate_gcode: number of points of toolpath li already emitted
    arith,       \* arithmetic of generate_gcode's numbers: "exact" | "binary64"
    fin,         \* binary64 sweep: inputs [zmin, zmax, h, tris]
    fz,          \* binary64 sweep: current plane height
    flayers,     \* binary64 sweep: layers appended so far (retained triangle indices)
    fpc          \* binary64 sweep: position

vars == <<mesh, h, pc, z, layers, heights, results, divs, toolpaths,
          sink, out, gz, li, pj, arith, fin, fz, flayers, fpc>>

pipeVars == <<mesh, h, pc, z, layers, heights, results, divs, toolpaths,
              sink, out, gz, li, pj, arith>>

sweepVars == <<fin, fz, flayers, fpc>>

---------------------------------------------------------------------------
(* Bounds of the model                                                     *)

\* vertex z coordinates range over 0..MaxZ
MaxZ == 2

\* layers the interpreter's memory has room for: the allocations of one more
\* iteration of slice_model's loop fail with MemoryError
MemLayers == 8

---------------------------------------------------------------------------
(* Exact rational arithmetic                                               *)

Abs(i) == IF i < 0 THEN -i ELSE i

RECURSIVE GCD(_, _)
GCD(a, b) == IF b = 0 THEN a ELSE GCD(b, a % b)

\* d = 0: not a finite number (result of x / 0)
Norm(n, d) ==
    IF d = 0 THEN [n |-> 0, d |-> 0]
    ELSE LET g == GCD(Abs(n), Abs(d))
             s == IF d < 0 THEN -1 ELSE 1
         IN  [n |-> s * (n \div g), d |-> s * (d \div g)]

R(i) == [n |-> i, d |-> 1]

IsFinite(a) == a.d # 0

RAdd(a, b) == Norm(a.n * b.d + b.n * a.d, a.d * b.d)
RSub(a, b) == Norm(a.n * b.d - b.n * a.d, a.d * b.d)
RMul(a, b) == Norm(a.n * b.n, a.d * b.d)
RDiv(a, b) == Norm(a.n * b.d, a.d * b.n)

\* comparisons with a non-finite operand are false, as for NaN
RLt(a, b) == IsFinite(a) /\ IsFinite(b) /\ a.n * b.d < b.n * a.d
RLe(a, b) == IsFinite(a) /\ IsFinite(b) /\ a.n * b.d <= b.n * a.d
REq(a, b) == IsFinite(a) /\ IsFinite(b) /\ a.n * b.d = b.n * a.d

---------------------------------------------------------------------------
(* IEEE binary64 addition, comparison and formatting                       *)
(*                                                                         *)
(* A binary64 value v with 0 <= v < 256 that is a multiple of 2^-64 is the *)
(* integer v * 2^64, held as three 24-bit limbs <<low, middle, high>>.     *)
(* An addition is the exact sum rounded to 53 significant bits, ties to    *)
(* even, which is what z += layer_height computes on Python floats.        *)

Limb == 2^24

\* significand width of a Python float
Precision == 53

RECURSIVE BitLen(_)
BitLen(n) == IF n = 0 THEN 0 ELSE 1 + BitLen(n \div 2)

BigBitLen(a) ==
    IF a[3] > 0 THEN 48 + BitLen(a[3])
    ELSE IF a[2] > 0 THEN 24 + BitLen(a[2])
    ELSE BitLen(a[1])

\* exact sum
BigAdd(a, b) ==
    LET s1 == a[1] + b[1]
        s2 == a[2] + b[2] + (s1 \div Limb)
        s3 == a[3] + b[3] + (s2 \div Limb)
    IN  <<s1 % Limb, s2 % Limb, s3>>

\* exact product with a small natural number
BigTimes(a, k) ==
    LET s1 == a[1] * k
        s2 == a[2] * k + (s1 \div Limb)
        s3 == a[3] * k + (s2 \div Limb)
    IN  <<s1 % Limb, s2 % Limb, s3>>

BigLe(a, b) ==
    \/ a[3] < b[3]
    \/ a[3] = b[3] /\ a[2] < b[2]
    \/ a[3] = b[3] /\ a[2] = b[2] /\ a[1] <= b[1]

BigLt(a, b) == BigLe(a, b) /\ a # b

\* round to Precision significant bits, ties to even (fewer than 24 bits dropped)
RoundToPrecision(a) ==
    LET drop == BigBitLen(a) - Precision
    IN  IF drop <= 0 THEN a
        ELSE LET p    == 2^drop
                 r    == a[1] % p
                 odd  == (a[1] \div p) % 2 = 1
                 down == <<a[1] - r, a[2], a[3]>>
             IN  IF 2 * r > p \/ (2 * r = p /\ odd)
                 THEN BigAdd(down, <<p, 0, 0>>)
                 ELSE down

\* z + layer_height without rounding
F64AddExact(a, b) == BigAdd(a, b)

\* z + layer_height on floats
F64Add(a, b) == RoundToPrecision(BigAdd(a, b))

\* k * x on floats, k a small natural number
F64Times(a, k) == RoundToPrecision(BigTimes(a, k))

\* f"{x:.2f}" of a float: the exact value times 100, divided by 2^64 and
\* rounded to the nearest integer, ties to even
F64Fmt2(a) ==
    LET p    == BigTimes(a, 100)
        q    == p[3] \div 2^16
        top  == p[3] % 2^16
        more == top > 2^15 \/ (top = 2^15 /\ (p[2] > 0 \/ p[1] > 0))
        tie  == top = 2^15 /\ p[2] = 0 /\ p[1] = 0
    IN  IF more \/ (tie /\ q % 2 = 1) THEN q + 1 ELSE q

\* the floats used as inputs, with their float.hex()
\* 0.0, 0x0.0p+0
F64_0 == <<0, 0, 0>>
\* 0.025, 0x1.999999999999ap-6
F64_0_025 == <<6710912, 6710886, 1638>>
\* 0.2, 0x1.999999999999ap-3
F64_0_2 == <<3355648, 3355443, 13107>>
\* 0.09, 0x1.70a3d70a3d70ap-4
F64_0_09 == <<14092800, 4026531, 5898>>
\* 0.125, 0x1.0000000000000p-3
F64_0_125 == <<0, 0, 8192>>
\* 0.25, 0x1.0000000000000p-2
F64_0_25 == <<0, 0, 16384>>
\* 0.35, 0x1.6666666666666p-2
F64_0_35 == <<10065920, 10066329, 22937>>
\* 0.5, 0x1.0000000000000p-1
F64_0_5 == <<0, 0, 32768>>
\* 1.0, 0x1.0000000000000p+0
F64_1 == <<0, 0, 65536>>
\* 1.75, 0x1.c000000000000p+0
F64_1_75 == <<0, 0, 114688>>
\* 2.25, 0x1.2000000000000p+1
F64_2_25 == <<0, 0, 147456>>
\* 3.5, 0x1.c000000000000p+1
F64_3_5 == <<0, 0, 229376>>

---------------------------------------------------------------------------
(* calculate_plane_intersection                                            *)

\* p[:2]
XY(p) == <<p[1], p[2]>>

\* which branch lines 18-25 take for an edge with end heights z1, z2
EdgeBranchLoose(z1, z2, zp) ==
    IF (RLe(z1, zp) /\ RLe(zp, z2)) \/ (RLe(z2, zp) /\ RLe(zp, z1))
    THEN "cross" ELSE "none"

EdgeBranchStrict(z1, z2, zp) ==
    IF REq(z1, zp) /\ REq(z2, zp) THEN "plane"
    ELSE IF (RLt(z1, zp) /\ RLt(zp, z2)) \/ (RLt(z2, zp) /\ RLt(zp, z1))
         THEN "cross" ELSE "none"

EdgeBranch(z1, z2, zp) ==
    IF REq(z1, zp) /\ REq(z2, zp) THEN "plane"
    ELSE IF (RLt(z1, zp) /\ RLe(zp, z2)) \/ (RLt(z2, zp) /\ RLe(zp, z1))
         THEN "cross" ELSE "none"

\* intersect_point = p1 + t * (p2 - p1), t = (z - z1) / (z2 - z1), projected to x, y
InterpolateFromP2(p1, p2, zp) ==
    LET t == RDiv(RSub(zp, p1[3]), RSub(p2[3], p1[3]))
    IN  << RAdd(p2[1], RMul(t, RSub(p1[1], p2[1]))),
           RAdd(p2[2], RMul(t, RSub(p1[2], p2[2]))) >>

Interpolate(p1, p2, zp) ==
    LET t == RDiv(RSub(zp, p1[3]), RSub(p2[3], p1[3]))
    IN  << RAdd(p1[1], RMul(t, RSub(p2[1], p1[1]))),
           RAdd(p1[2], RMul(t, RSub(p2[2], p1[2]))) >>

\* the points one edge (p1, p2) contributes
EdgePoints(p1, p2, zp) ==
    LET b == EdgeBranch(p1[3], p2[3], zp)
    IN  IF b = "plane" THEN <<XY(p1), XY(p2)>>
        ELSE IF b = "cross" THEN <<Interpolate(p1, p2, zp)>>
        ELSE <<>>

\* vertices[(i + 1) % 3] with 1-based i
NextVertex(i) == (i % 3) + 1

calculate_plane_intersection(triangle, zp) ==
    EdgePoints(triangle[1], triangle[NextVertex(1)], zp)
    \o EdgePoints(triangle[2], triangle[NextVertex(2)], zp)
    \o EdgePoints(triangle[3], triangle[NextVertex(3)], zp)

\* the divisors z2 - z1 that line 23 evaluates for this triangle and plane
Divisors(triangle, zp) ==
    { RSub(triangle[NextVertex(i)][3], triangle[i][3]) :
        i \in { k \in 1..3 :
                  EdgeBranch(triangle[k][3], triangle[NextVertex(k)][3], zp) = "cross" } }

---------------------------------------------------------------------------
(* slice_model                                                             *)

RECURSIVE MinOf(_), MaxOf(_)
MinOf(S) == LET x == CHOOSE e \in S : TRUE
            IN  IF S = {x} THEN x
                ELSE LET m == MinOf(S \ {x}) IN IF RLt(x, m) THEN x ELSE m
MaxOf(S) == LET x == CHOOSE e \in S : TRUE
            IN  IF S = {x} THEN x
                ELSE LET m == MaxOf(S \ {x}) IN IF RLt(m, x) THEN x ELSE m

\* mesh_data.z: the z coordinate of every vertex
AllZ(m) == { m[k][i][3] : k \in DOMAIN m, i \in 1..3 }

z_min(m) == MinOf(AllZ(m))
z_max(m) == MaxOf(AllZ(m))

\* line 39: the test that decides whether a result becomes a segment of the layer
KeepsAtLeastTwo(intersections) == Len(intersections) >= 2

Keeps(intersections) == Len(intersections) = 2

\* lines 36-40: the inner loop over mesh_data.vectors, from triangle k on
RECURSIVE LayerEdgesFrom(_, _, _)
LayerEdgesFrom(m, zp, k) ==
    IF k > Len(m) THEN <<>>
    ELSE LET intersections == calculate_plane_intersection(m[k], zp)
         IN  (IF Keeps(intersections) THEN <<intersections>> ELSE <<>>)
             \o LayerEdgesFrom(m, zp, k + 1)

LayerEdges(m, zp) == LayerEdgesFrom(m, zp, 1)

\* line 43: z += layer_height
NextHeight(zp, step) == RAdd(zp, step)

\* line 35: while z <= z_max
SweepContinues(zp, m) == RLe(zp, z_max(m))

\* lines 36-41: the lists an iteration allocates (layer_edges, the results,
\* the slot layers.append needs) fit while memory is left
MemoryLeft(ls) == Len(ls) < MemLayers

\* lines 35-45 and 96: neither slice_model nor its caller has a handler, so
\* an exception raised inside the loop leaves the call and ends the run
AfterSliceErrorReturns(exception) == "toolpaths"

AfterSliceError(exception) == "slice_raised"

---------------------------------------------------------------------------
(* generate_toolpaths                                                      *)

\* path.extend(edge) for every edge of the layer
RECURSIVE Flatten(_)
Flatten(layer) ==
    IF layer = <<>> THEN <<>> ELSE Head(layer) \o Flatten(Tail(layer))

\* key=lambda p: (p[0], p[1]), compared as tuples
KeyLessXOnly(p, q) == RLt(p[1], q[1])

KeyLess(p, q) == RLt(p[1], q[1]) \/ (REq(p[1], q[1]) /\ RLt(p[2], q[2]))

\* sorted() is stable: p goes after every element whose key is not greater
RECURSIVE InsertSorted(_, _)
InsertSorted(p, s) ==
    IF s = <<>> THEN <<p>>
    ELSE IF KeyLess(p, Head(s)) THEN <<p>> \o s
    ELSE <<Head(s)>> \o InsertSorted(p, Tail(s))

RECURSIVE SortedFrom(_, _)
SortedFrom(path, acc) ==
    IF path = <<>> THEN acc
    ELSE SortedFrom(Tail(path), InsertSorted(Head(path), acc))

sorted(path) == SortedFrom(path, <<>>)

\* lines 52-60 for one layer
Toolpath(layer) ==
    LET path == Flatten(layer)
    IN  IF path # <<>> THEN sorted(path) ELSE path

generate_toolpaths(ls) == [k \in DOMAIN ls |-> Toolpath(ls[k])]

---------------------------------------------------------------------------
(* generate_gcode                                                          *)

\* f"{x:.2f}": the number of hundredths printed, round-half-even
Fmt2(x) ==
    LET q == (100 * x.n) \div x.d
        r == 100 * x.n - q * x.d
    IN  IF 2 * r > x.d THEN q + 1
        ELSE IF 2 * r < x.d THEN q
        ELSE IF q % 2 = 0 THEN q ELSE q + 1

\* The numbers of generate_gcode (z, layer_height, the coordinates of the
\* points) are exact rationals when the function runs as the last stage of
\* the pipeline on the dyadic grid, and binary64 values when it is run on
\* its own on arbitrary floats.
NumZero == IF arith = "binary64" THEN F64_0 ELSE R(0)

NumAdd(x, y) == IF arith = "binary64" THEN F64Add(x, y) ELSE RAdd(x, y)

NumFmt2(x) == IF arith = "binary64" THEN F64Fmt2(x) ELSE Fmt2(x)

\* one line of the file: command word, its numeric fields (hundredths for
\* X, Y, Z; the literal for S), and the feed rate
Line(op, a, b, f) == [op |-> op, a |-> a, b |-> b, f |-> f]

Preamble ==
    << Line("G21", 0, 0, 0), Line("G90", 0, 0, 0), Line("M104 S", 200, 0, 0),
       Line("M140 S", 60, 0, 0), Line("M190 S", 60, 0, 0), Line("M109 S", 200, 0, 0) >>

Postamble ==
    << Line("M104 S", 0, 0, 0), Line("M140 S", 0, 0, 0), Line("M84", 0, 0, 0) >>

ZMove(zv) == Line("G1 Z", NumFmt2(zv), 0, 300)

XYMove(p) == Line("G1 X Y", NumFmt2(p[1]), NumFmt2(p[2]), 1500)

\* line 76: z += layer_height
NextGcodeZ(zv, step) == NumAdd(zv, step)

\* where the emitter goes after finishing toolpath number i (or the preamble, i = 0)
AfterToolpath(tps, i) == IF i < Len(tps) THEN "zmove" ELSE "postamble"

---------------------------------------------------------------------------
(* Inputs of the pipeline                                                  *)

\* (x, y) of the three vertices of the two triangles of the mesh
FootprintA == << <<2, 1>>, <<0, 0>>, <<0, 1>> >>
FootprintB == << <<1, 1>>, <<1, 0>>, <<2, 0>> >>

Triangle(foot, zs) == [i \in 1..3 |-> <<R(foot[i][1]), R(foot[i][2]), R(zs[i])>>]

ZTriples == (0..MaxZ) \X (0..MaxZ) \X (0..MaxZ)

Meshes == { <<Triangle(FootprintA, za), Triangle(FootprintB, zb)>> :
              za \in ZTriples, zb \in ZTriples }

\* layer_height: positive values (9/8 is not a multiple of 1/100), and the
\* zero and negative ones of section 7
LayerHeights == { R(-1), R(0), Norm(1, 2), R(1), Norm(9, 8), R(2) }

Idle == [zmin |-> <<>>, zmax |-> <<>>, h |-> <<>>, tris |-> <<>>]

---------------------------------------------------------------------------
(* The driver (lines 87-104): load, slice, toolpaths, gcode                *)

InitOver(inputs) ==
    /\ mesh \in inputs
    /\ h \in LayerHeights
    /\ pc = "slice"
    /\ z = z_min(mesh)
    /\ layers = <<>>
    /\ heights = <<>>
    /\ results = <<>>
    /\ divs = {}
    /\ toolpaths = <<>>
    /\ sink = "none"
    /\ out = <<>>
    /\ gz = R(0)
    /\ li = 0
    /\ pj = 0
    /\ arith = "exact"
    /\ fin = Idle
    /\ fz = <<>>
    /\ flayers = <<>>
    /\ fpc = "idle"

Init == InitOver(Meshes)

\* slice_model, one iteration of the while loop (lines 35-43)
SliceStep ==
    /\ pc = "slice"
    /\ SweepContinues(z, mesh)
    /\ MemoryLeft(layers)
    /\ layers' = Append(layers, LayerEdges(mesh, z))
    /\ heights' = Append(heights, z)
    /\ results' = Append(results,
                         [k \in DOMAIN mesh |-> calculate_plane_intersection(mesh[k], z)])
    /\ divs' = divs \cup UNION { Divisors(mesh[k], z) : k \in DOMAIN mesh }
    /\ z' = NextHeight(z, h)
    /\ UNCHANGED <<mesh, h, pc, toolpaths, sink, out, gz, li, pj>>
    /\ UNCHANGED <<arith, sweepVars>>

\* slice_model, an iteration that runs out of memory (lines 35-41): the
\* MemoryError propagates out of slice_model and of the driver
SliceRaises ==
    /\ pc = "slice"
    /\ SweepContinues(z, mesh)
    /\ ~MemoryLeft(layers)
    /\ pc' = AfterSliceError("MemoryError")
    /\ UNCHANGED <<mesh, h, z, layers, heights, results, divs, toolpaths,
                   sink, out, gz, li, pj>>
    /\ UNCHANGED <<arith, sweepVars>>

\* slice_model, loop exit and return (lines 35, 45)
SliceReturn ==
    /\ pc = "slice"
    /\ ~SweepContinues(z, mesh)
    /\ pc' = "toolpaths"
    /\ UNCHANGED <<mesh, h, z, layers, heights, results, divs, toolpaths,
                   sink, out, gz, li, pj>>
    /\ UNCHANGED <<arith, sweepVars>>

\* generate_toolpaths(layers) (lines 47-62)
GenerateToolpaths ==
    /\ pc = "toolpaths"
    /\ toolpaths' = generate_toolpaths(layers)
    /\ pc' = "gcode"
    /\ UNCHANGED <<mesh, h, z, layers, heights, results, divs, sink, out, gz, li, pj>>
    /\ UNCHANGED <<arith, sweepVars>>

\* generate_gcode: open(output_file, 'w') succeeds (line 66)
GcodeOpen ==
    /\ pc = "gcode"
    /\ sink' = "open"
    /\ out' = <<>>
    /\ pc' = "preamble"
    /\ UNCHANGED <<mesh, h, z, layers, heights, results, divs, toolpaths, gz, li, pj>>
    /\ UNCHANGED <<arith, sweepVars>>

\* generate_gcode: open() raises; no file was acquired (line 66)
GcodeOpenFails ==
    /\ pc = "gcode"
    /\ pc' = "raised"
    /\ UNCHANGED <<mesh, h, z, layers, heights, results, divs, toolpaths,
                   sink, out, gz, li, pj>>
    /\ UNCHANGED <<arith, sweepVars>>

\* gcode_file.write of the next preamble line (lines 67-72), then z = 0 (line 74)
WritePreamble ==
    /\ pc = "preamble"
    /\ sink = "open"
    /\ out' = Append(out, Preamble[Len(out) + 1])
    /\ IF Len(out) + 1 = Len(Preamble)
       THEN /\ gz' = NumZero
            /\ li' = 0
            /\ pj' = 0
            /\ pc' = AfterToolpath(toolpaths, 0)
       ELSE UNCHANGED <<gz, li, pj, pc>>
    /\ UNCHANGED <<mesh, h, z, layers, heights, results, divs, toolpaths, sink>>
    /\ UNCHANGED <<arith, sweepVars>>

\* next toolpath: z += layer_height and the Z move (lines 75-77)
WriteZMove ==
    /\ pc = "zmove"
    /\ sink = "open"
    /\ li' = li + 1
    /\ gz' = NextGcodeZ(gz, h)
    /\ out' = Append(out, ZMove(gz'))
    /\ pj' = 0
    /\ pc' = IF Len(toolpaths[li']) > 0 THEN "points" ELSE AfterToolpath(toolpaths, li')
    /\ UNCHANGED <<mesh, h, z, layers, heights, results, divs, toolpaths, sink>>
    /\ UNCHANGED <<arith, sweepVars>>

\* one XY move of the current toolpath (lines 79-80)
WriteXYMove ==
    /\ pc = "points"
    /\ sink = "open"
    /\ out' = Append(out, XYMove(toolpaths[li][pj + 1]))
    /\ IF pj + 1 < Len(toolpaths[li])
       THEN pj' = pj + 1 /\ pc' = "points"
       ELSE pj' = 0 /\ pc' = AfterToolpath(toolpaths, li)
    /\ UNCHANGED <<mesh, h, z, layers, heights, results, divs, toolpaths, sink, gz, li>>
    /\ UNCHANGED <<arith, sweepVars>>

\* gcode_file.write of the next postamble line (lines 82-84); pj counts them
WritePostamble ==
    /\ pc = "postamble"
    /\ sink = "open"
    /\ pj' = pj + 1
    /\ out' = Append(out, Postamble[pj'])
    /\ pc' = IF pj' = Len(Postamble) THEN "exit" ELSE "postamble"
    /\ UNCHANGED <<mesh, h, z, layers, heights, results, divs, toolpaths, sink, gz, li>>
    /\ UNCHANGED <<arith, sweepVars>>

\* what leaving the with block does to the file: __exit__ closes it
WithExitLeavesOpen(s) == s

WithExit(s) == IF s = "open" THEN "closed" ELSE s

\* any gcode_file.write raises: the with block closes the file and the
\* exception propagates to the caller (line 66)
WriteFails ==
    /\ pc \in {"preamble", "zmove", "points", "postamble"}
    /\ sink = "open"
    /\ sink' = WithExit(sink)
    /\ pc' = "raised"
    /\ UNCHANGED <<mesh, h, z, layers, heights, results, divs, toolpaths, out, gz, li, pj>>
    /\ UNCHANGED <<arith, sweepVars>>

\* normal end of the with block, then return to the driver (lines 66, 84)
GcodeReturn ==
    /\ pc = "exit"
    /\ sink' = WithExit(sink)
    /\ pc' = "returned"
    /\ UNCHANGED <<mesh, h, z, layers, heights, results, divs, toolpaths, out, gz, li, pj>>
    /\ UNCHANGED <<arith, sweepVars>>

\* the with block ends after the last write returned, but closing the file
\* raises: the writes are buffered, so an error of the device can surface only
\* when __exit__ flushes; the file object is closed all the same and the
\* exception leaves generate_gcode (line 66)
GcodeCloseFails ==
    /\ pc = "exit"
    /\ sink = "open"
    /\ sink' = WithExit(sink)
    /\ pc' = "raised"
    /\ UNCHANGED <<mesh, h, z, layers, heights, results, divs, toolpaths, out, gz, li, pj>>
    /\ UNCHANGED <<arith, sweepVars>>

Next ==
    \/ SliceStep
    \/ SliceRaises
    \/ SliceReturn
    \/ GenerateToolpaths
    \/ GcodeOpen
    \/ GcodeOpenFails
    \/ WritePreamble
    \/ WriteZMove
    \/ WriteXYMove
    \/ WritePostamble
    \/ WriteFails
    \/ GcodeReturn
    \/ GcodeCloseFails

Spec == Init /\ [][Next]_vars

\* The interpreter keeps executing the loop of slice_model: an iteration whose
\* test z <= z_max holds is run (and raises when memory is exhausted), and
\* the loop is left when the test fails.
\* SweepAdvance is what a completed iteration does to z and to the recorded
\* heights.
LevelMeshes == { m \in Meshes : \A i \in 1..3 : m[1][i][3] = m[2][i][3] }

FairInit == InitOver(LevelMeshes)

SweepAdvance ==
    /\ pc = "slice"
    /\ SweepContinues(z, mesh)
    /\ MemoryLeft(layers)
    /\ z' = NextHeight(z, h)
    /\ heights' = Append(heights, z)

FairSpec ==
    /\ FairInit
    /\ [][Next]_vars
    /\ WF_<<z, heights>>(SweepAdvance)
    /\ WF_vars(SliceRaises)
    /\ WF_vars(SliceReturn)

---------------------------------------------------------------------------
(* generate_gcode on its own, on binary64 numbers                          *)

\* longest list of toolpaths passed to generate_gcode
MaxToolpaths == 7

\* the toolpaths a list is made of
EmitShapes ==
    { <<>>,
      << <<F64_0, F64_0_5>> >>,
      << <<F64_0_125, F64_1_75>>, <<F64_3_5, F64_0>> >> }

\* lists of up to MaxToolpaths toolpaths, alternating between two shapes
EmitToolpaths ==
    { [i \in 1..n |-> IF i % 2 = 1 THEN a ELSE b] :
        n \in 0..MaxToolpaths, a \in EmitShapes, b \in EmitShapes }

EmitSteps == {F64_0_025, F64_0_2, F64_0_5}

\* the call generate_gcode(toolpaths, layer_height, output_file) (line 64)
EmitInit ==
    /\ toolpaths \in EmitToolpaths
    /\ h \in EmitSteps
    /\ arith = "binary64"
    /\ pc = "gcode"
    /\ mesh = <<>>
    /\ z = <<>>
    /\ layers = <<>>
    /\ heights = <<>>
    /\ results = <<>>
    /\ divs = {}
    /\ sink = "none"
    /\ out = <<>>
    /\ gz = F64_0
    /\ li = 0
    /\ pj = 0
    /\ fin = Idle
    /\ fz = <<>>
    /\ flayers = <<>>
    /\ fpc = "idle"

EmitNext ==
    \/ GcodeOpen
    \/ GcodeOpenFails
    \/ WritePreamble
    \/ WriteZMove
    \/ WriteXYMove
    \/ WritePostamble
    \/ WriteFails
    \/ GcodeReturn
    \/ GcodeCloseFails

EmitSpec == EmitInit /\ [][EmitNext]_vars

---------------------------------------------------------------------------
(* The height sweep of slice_model in IEEE binary64                        *)

\* vertex heights and layer heights of the sweep's inputs
SweepHeights == {F64_0, F64_0_5, F64_1, F64_1_75, F64_2_25, F64_3_5}
SweepSteps == {F64_0_09, F64_0_25, F64_0_35, F64_0_5}

RECURSIVE BigMinOf(_), BigMaxOf(_)
BigMinOf(S) == LET x == CHOOSE e \in S : TRUE
               IN  IF S = {x} THEN x
                   ELSE LET m == BigMinOf(S \ {x}) IN IF BigLt(x, m) THEN x ELSE m
BigMaxOf(S) == LET x == CHOOSE e \in S : TRUE
               IN  IF S = {x} THEN x
                   ELSE LET m == BigMaxOf(S \ {x}) IN IF BigLt(m, x) THEN x ELSE m

\* lines 18-25 decide the number of points of an edge by comparisons alone
F64EdgeCount(z1, z2, zp) ==
    IF z1 = zp /\ z2 = zp THEN 2
    ELSE IF (BigLt(z1, zp) /\ BigLe(zp, z2)) \/ (BigLt(z2, zp) /\ BigLe(zp, z1))
         THEN 1 ELSE 0

\* len(calculate_plane_intersection(triangle, z)) for a triangle of vertex heights zs
F64ResultLen(zs, zp) ==
    F64EdgeCount(zs[1], zs[2], zp) + F64EdgeCount(zs[2], zs[3], zp)
    + F64EdgeCount(zs[3], zs[1], zp)

\* the triangles (by index) whose result the layer at zp keeps
RECURSIVE F64LayerFrom(_, _, _)
F64LayerFrom(tris, zp, k) ==
    IF k > Len(tris) THEN <<>>
    ELSE (IF F64ResultLen(tris[k], zp) = 2 THEN <<k>> ELSE <<>>)
         \o F64LayerFrom(tris, zp, k + 1)

SweepInit ==
    /\ \E zs \in SweepHeights \X SweepHeights \X SweepHeights, step \in SweepSteps :
          /\ fin = [zmin |-> BigMinOf({zs[1], zs[2], zs[3]}),
                    zmax |-> BigMaxOf({zs[1], zs[2], zs[3]}),
                    h |-> step, tris |-> <<zs>>]
          /\ fz = BigMinOf({zs[1], zs[2], zs[3]})
    /\ flayers = <<>>
    /\ fpc = "slice"
    /\ mesh = <<>>
    /\ h = R(0)
    /\ pc = "idle"
    /\ z = R(0)
    /\ layers = <<>>
    /\ heights = <<>>
    /\ results = <<>>
    /\ divs = {}
    /\ toolpaths = <<>>
    /\ sink = "none"
    /\ out = <<>>
    /\ gz = R(0)
    /\ li = 0
    /\ pj = 0
    /\ arith = "binary64"

\* one iteration of the while loop (lines 35-43)
SweepStep ==
    /\ fpc = "slice"
    /\ BigLe(fz, fin.zmax)
    /\ flayers' = Append(flayers, F64LayerFrom(fin.tris, fz, 1))
    /\ fz' = F64Add(fz, fin.h)
    /\ UNCHANGED <<fin, fpc>>
    /\ UNCHANGED pipeVars

\* loop exit and return (lines 35, 45)
SweepReturn ==
    /\ fpc = "slice"
    /\ ~BigLe(fz, fin.zmax)
    /\ fpc' = "returned"
    /\ UNCHANGED <<fin, fz, flayers>>
    /\ UNCHANGED pipeVars

SweepNext == SweepStep \/ SweepReturn

SweepSpec == SweepInit /\ [][SweepNext]_vars

---------------------------------------------------------------------------
(* Properties                                                              *)

Count(s, e) == Cardinality({ i \in DOMAIN s : s[i] = e })

SameBag(s, t) ==
    /\ Len(s) = Len(t)
    /\ \A i \in DOMAIN s : Count(s, s[i]) = Count(t, s[i])

IsPrefix(s, t) == Len(s) <= Len(t) /\ \A i \in DOMAIN s : s[i] = t[i]

Positive(x) == RLt(R(0), x)

\* every (layer index, triangle index) for which a result was recorded
Recorded == { <<k, t>> : k \in DOMAIN results, t \in DOMAIN mesh }

\* C1: for h > 0, slice_model returns exactly one layer per height
\* z_min + k*h <= z_max (k = 0, 1, ...), that is floor((z_max - z_min)/h) + 1
\* layers, the heights taken as the exact values of the floats passed in.
RECURSIVE ExactLayerCount(_, _, _, _)
ExactLayerCount(zmin, zmax, step, k) ==
    IF BigLe(F64AddExact(zmin, BigTimes(step, k)), zmax)
    THEN ExactLayerCount(zmin, zmax, step, k + 1)
    ELSE k

C1_OneLayerPerHeight ==
    fpc = "returned" =>
        Len(flayers) = ExactLayerCount(fin.zmin, fin.zmax, fin.h, 0)

\* C2: the file holds the 6 preamble lines, then per toolpath i (0-based) one
\* Z move to (i+1)*h followed by one XY move per point in order, then the 3
\* postamble lines; while writing, the file is a prefix of that program.
\* the product i * h in the arithmetic of the run, before it is formatted
Times(i, step) == IF arith = "binary64" THEN F64Times(step, i) ELSE RMul(R(i), step)

RECURSIVE ExpectedMoves(_, _, _)
ExpectedMoves(tps, step, i) ==
    IF i > Len(tps) THEN <<>>
    ELSE <<ZMove(Times(i, step))>>
         \o [j \in DOMAIN tps[i] |-> XYMove(tps[i][j])]
         \o ExpectedMoves(tps, step, i + 1)

ExpectedProgram(tps, step) == Preamble \o ExpectedMoves(tps, step, 1) \o Postamble

C2_GcodeSequence ==
    /\ sink # "none" => IsPrefix(out, ExpectedProgram(toolpaths, h))
    /\ pc = "returned" => out = ExpectedProgram(toolpaths, h)

C2_Witness ==
    /\ pc = "returned"
    /\ Len(toolpaths) >= 3
    /\ \E i \in DOMAIN toolpaths : toolpaths[i] = <<>>
    /\ \E i \in DOMAIN toolpaths : Len(toolpaths[i]) = 4

\* C3: one toolpath per layer, in order; each toolpath is a permutation of the
\* endpoints of its layer's segments in non-decreasing (x, y) order; an empty
\* layer gives an empty toolpath.
LexLe(p, q) == RLt(p[1], q[1]) \/ (p[1] = q[1] /\ RLe(p[2], q[2]))

Endpoints(layer) == Flatten(layer)

C3_ToolpathSorted ==
    pc \in {"gcode", "preamble", "zmove", "points", "postamble", "exit",
            "returned", "raised"} =>
        /\ Len(toolpaths) = Len(layers)
        /\ \A k \in DOMAIN layers :
              /\ SameBag(toolpaths[k], Endpoints(layers[k]))
              /\ Len(toolpaths[k]) = 2 * Len(layers[k])
              /\ \A i, j \in DOMAIN toolpaths[k] :
                    i < j => LexLe(toolpaths[k][i], toolpaths[k][j])

P(x, y) == <<R(x), R(y)>>

C3_Witness ==
    /\ pc = "gcode"
    /\ \E k \in DOMAIN layers :
          /\ layers[k] = << <<P(2, 1), P(0, 0)>>, <<P(1, 1), P(1, 0)>> >>
          /\ toolpaths[k] = <<P(0, 0), P(1, 0), P(1, 1), P(2, 1)>>

\* C4: the layer of a height holds exactly the results of length 2, in mesh
\* triangle order; results of any other length add nothing.
IsSegment(r) == Len(r) = 2

C4_KeepsExactlyPairs ==
    /\ Len(layers) = Len(results)
    /\ \A k \in DOMAIN layers : layers[k] = SelectSeq(results[k], IsSegment)

C4_Witness ==
    \E k \in DOMAIN layers :
        /\ Len(results[k][1]) = 4
        /\ Len(results[k][2]) = 2
        /\ layers[k] = <<results[k][2]>>

\* C5: the file is open while lines are written, closed whenever control is
\* back with the caller, and nothing is written once it is closed.
C5_SinkReleased ==
    /\ [](pc \in {"returned", "raised"} => sink # "open")
    /\ [](out # <<>> => sink # "none")
    /\ [][sink' # "open" => out' = out]_vars

C5_Witness ==
    /\ pc = "raised"
    /\ sink = "closed"
    /\ Len(out) > Len(Preamble)

C7_NoZeroDivisor == \A d \in divs : d.n # 0

\* an edge in the plane next to crossing edges, and a level edge off the plane
C7_Witness ==
    /\ divs # {}
    /\ \E rec \in Recorded : Len(results[rec[1]][rec[2]]) = 4
    /\ \E rec \in Recorded :
          /\ mesh[rec[2]][1][3] = mesh[rec[2]][2][3]
          /\ mesh[rec[2]][1][3] # heights[rec[1]]
          /\ Len(results[rec[1]][rec[2]]) = 2

\* C8: for h > 0 the Z written in the i-th Z move minus the height at which
\* layer i was sliced is h - z_min for every i; the two are equal iff
\* z_min = h.
ZMoves == SelectSeq(out, LAMBDA l : l.op = "G1 Z")

Hundredths(a) == Norm(a, 100)

C8_HeightOffset ==
    Positive(h) =>
        \A i \in DOMAIN ZMoves :
            /\ RSub(Hundredths(ZMoves[i].a), heights[i]) = RSub(h, z_min(mesh))
            /\ (Hundredths(ZMoves[i].a) = heights[i]) <=> (z_min(mesh) = h)

\* C9: every result has 0, 2, 4 or 6 points: an edge gives 1 point exactly
\* when one end is strictly below the plane and the other at or above it
\* (0 or 2 of the 3 edges), 2 points when both ends are in the plane; so the
\* results a layer drops have 0, 4 or 6 points.
Below(v, zp) == RLt(v[3], zp)
InPlane(v, zp) == v[3] = zp

CrossingEdges(tri, zp) ==
    { i \in 1..3 : Below(tri[i], zp) # Below(tri[NextVertex(i)], zp) }

PlaneEdges(tri, zp) ==
    { i \in 1..3 : InPlane(tri[i], zp) /\ InPlane(tri[NextVertex(i)], zp) }

C9_EvenPointCount ==
    \A rec \in Recorded :
        LET tri == mesh[rec[2]]
            zp  == heights[rec[1]]
            r   == results[rec[1]][rec[2]]
        IN  /\ Len(r) \in {0, 2, 4, 6}
            /\ Cardinality(CrossingEdges(tri, zp)) \in {0, 2}
            /\ Len(r) = Cardinality(CrossingEdges(tri, zp))
                        + 2 * Cardinality(PlaneEdges(tri, zp))
            /\ (\A j \in DOMAIN layers[rec[1]] : layers[rec[1]][j] # r)
                  => Len(r) \in {0, 4, 6}

C9_Witness ==
    \A n \in {0, 2, 4, 6} : \E rec \in Recorded : Len(results[rec[1]][rec[2]]) = n

\* C10: with exactly one edge in the plane, the result is that edge's two
\* endpoints and is kept when the third vertex is strictly above; it is the
\* two endpoints twice over (4 points) and is dropped when the third vertex
\* is strictly below; with all three vertices in the plane it has 6 points
\* and is dropped.
Kept(k, r) == \E j \in DOMAIN layers[k] : layers[k][j] = r

C10_EdgeInPlane ==
    \A rec \in Recorded :
        LET tri == mesh[rec[2]]
            zp  == heights[rec[1]]
            r   == results[rec[1]][rec[2]]
        IN  /\ \A i \in 1..3 :
                LET a == tri[i]
                    b == tri[NextVertex(i)]
                    c == tri[NextVertex(NextVertex(i))]
                IN  /\ (InPlane(a, zp) /\ InPlane(b, zp) /\ RLt(zp, c[3])) =>
                          r = <<XY(a), XY(b)>> /\ Kept(rec[1], r)
                    /\ (InPlane(a, zp) /\ InPlane(b, zp) /\ RLt(c[3], zp)) =>
                          /\ Len(r) = 4
                          /\ SameBag(r, <<XY(a), XY(b), XY(a), XY(b)>>)
                          /\ ~Kept(rec[1], r)
            /\ (\A i \in 1..3 : InPlane(tri[i], zp)) =>
                  Len(r) = 6 /\ ~Kept(rec[1], r)

C10_Witness ==
    /\ \E rec \in Recorded :
          /\ InPlane(mesh[rec[2]][1], heights[rec[1]])
          /\ InPlane(mesh[rec[2]][2], heights[rec[1]])
          /\ RLt(heights[rec[1]], mesh[rec[2]][3][3])
          /\ Kept(rec[1], results[rec[1]][rec[2]])
    /\ \E rec \in Recorded :
          /\ InPlane(mesh[rec[2]][1], heights[rec[1]])
          /\ InPlane(mesh[rec[2]][2], heights[rec[1]])
          /\ RLt(mesh[rec[2]][3][3], heights[rec[1]])
          /\ Len(results[rec[1]][rec[2]]) = 4

=============================================================================
